---- MODULE Spec2Model ----
(***************************************************************************)
(* Re-Feed: ingestion of an external RSS / JSON feed into a local store,   *)
(* free-form tagging of the stored entries, and re-publication of the      *)
(* store as RSS, Atom and JSON feeds.                                       *)
(*                                                                         *)
(* Strings whose characters matter (tag names, titles) are sequences of    *)
(* one-character strings.  The relational store is four tables: entries,   *)
(* tags, links (feed_entry_tag rows) and changes.  Primary keys are        *)
(* SQLite rowids: a new row gets the largest id of its table plus one.     *)
(***************************************************************************)
EXTENDS Integers, Sequences, FiniteSets, Bags, TLC

(* ------------------------------ bounds -------------------------------- *)
\* longest list of items one source document carries
MaxItems == 3
\* last value of the wall clock
MaxClock == 1
\* most feed_entry_tag rows the store is driven to by requests served one
\* after the other
MaxLinks == 2
\* most feed_entry_tag rows the store is driven to by racing requests
MaxRaceLinks == 3
\* largest limit a feed request asks for
MaxLimit == 2

(* ------------------------------ text ---------------------------------- *)
RECURSIVE Flatten(_)
Flatten(ss) == IF ss = <<>> THEN <<>> ELSE Head(ss) \o Flatten(Tail(ss))

\* str.lower(), on the characters the model uses
LowerChar(c) == CASE c = "G" -> "g" [] c = "O" -> "o" [] OTHER -> c
lower(s) == [i \in 1..Len(s) |-> LowerChar(s[i])]

\* str.strip(): leading and trailing whitespace removed
RECURSIVE lstrip(_)
lstrip(s) == IF s # <<>> /\ Head(s) = " " THEN lstrip(Tail(s)) ELSE s
RECURSIVE rstrip(_)
rstrip(s) ==
  IF s # <<>> /\ s[Len(s)] = " " THEN rstrip(SubSeq(s, 1, Len(s) - 1)) ELSE s
strip(s) == rstrip(lstrip(s))

\* SQL LIKE: % matches any run of characters, _ any one character
RECURSIVE Like(_, _)
Like(p, s) ==
  IF p = <<>> THEN s = <<>>
  ELSE IF Head(p) = "%" THEN Like(Tail(p), s) \/ (s # <<>> /\ Like(p, Tail(s)))
  ELSE IF s = <<>> THEN FALSE
  ELSE IF Head(p) = "_" THEN Like(Tail(p), Tail(s))
  ELSE Head(p) = Head(s) /\ Like(Tail(p), Tail(s))

\* Column.ilike(pattern): lower(column) LIKE lower(pattern)
ilike(col, pattern) == Like(lower(pattern), lower(col))

\* html.escape(s): & < > " ' replaced by their entities
EscapeChar(c) ==
  CASE c = "&" -> <<"&", "a", "m", "p", ";">>
    [] c = "<" -> <<"&", "l", "t", ";">>
    [] c = ">" -> <<"&", "g", "t", ";">>
    [] c = "\"" -> <<"&", "q", "u", "o", "t", ";">>
    [] c = "'" -> <<"&", "#", "x", "2", "7", ";">>
    [] OTHER -> <<c>>
html_escape(s) == Flatten([i \in 1..Len(s) |-> EscapeChar(s[i])])

\* ftfy's encoding repair: the mis-decoded pair "Ã" "©" is "é"
RECURSIVE fix_encoding(_)
fix_encoding(s) ==
  IF Len(s) >= 2 /\ s[1] = "Ã" /\ s[2] = "©"
    THEN <<"é">> \o fix_encoding(SubSeq(s, 3, Len(s)))
  ELSE IF s = <<>> THEN <<>>
  ELSE <<Head(s)>> \o fix_encoding(Tail(s))

HasPrefix(s, p) == Len(s) >= Len(p) /\ SubSeq(s, 1, Len(p)) = p

\* ftfy's entity decoding (html.unescape) of the entities the model uses
RECURSIVE unescape_html(_)
unescape_html(s) ==
  IF s = <<>> THEN <<>>
  ELSE IF HasPrefix(s, <<"&", "l", "t", ";">>)
    THEN <<"<">> \o unescape_html(SubSeq(s, 5, Len(s)))
  ELSE IF HasPrefix(s, <<"&", "g", "t", ";">>)
    THEN <<">">> \o unescape_html(SubSeq(s, 5, Len(s)))
  ELSE IF HasPrefix(s, <<"&", "a", "m", "p", ";">>)
    THEN <<"&">> \o unescape_html(SubSeq(s, 6, Len(s)))
  ELSE <<Head(s)>> \o unescape_html(Tail(s))

\* ftfy.fix_text(text, unescape_html=mode); mode "auto" (the default) decodes
\* entities unless the text contains "<"
fix_text(s, mode) ==
  LET decode == mode = "auto" /\ \A i \in 1..Len(s) : s[i] # "<"
  IN  fix_encoding(IF decode THEN unescape_html(s) ELSE s)

(* --------------------------- source feeds ----------------------------- *)
\* the identifiers the external feed gives its items
ItemIds == {"a", "b", "c"}

\* the title the source carries for each item
ItemTitle(i) ==
  CASE i = "a" -> <<"a">>
    [] i = "b" -> <<"<", "b">>
    [] OTHER -> <<"Ã", "©", "&", "l", "t", ";">>

\* the publication time the source's well-formed timestamp of an item denotes
ItemTime(i) == CASE i = "a" -> 1 [] i = "b" -> 2 [] OTHER -> 3

\* an item of a source document; "dateok" is whether its timestamp matches
\* the configured *_PUBLISHED_AT_FORMAT
Item(i, ok) == [id |-> i, title |-> ItemTitle(i), dateok |-> ok]
ItemUniverse == {Item(i, TRUE) : i \in ItemIds} \cup {Item("b", FALSE)}

SeqsUpTo(S, n) == UNION {[1..k -> S] : k \in 0..n}
SourceLists == SeqsUpTo(ItemUniverse, MaxItems)

\* what fetching the configured URL gives: a document, a non-200 answer, or
\* no usable URL
FeedResponses ==
  {[status |-> "ok", items |-> l] : l \in SourceLists}
    \cup {[status |-> "non200", items |-> <<>>],
          [status |-> "nourl", items |-> <<>>]}

Reverse(s) == [i \in 1..Len(s) |-> s[Len(s) + 1 - i]]

(* ------------------------------ state --------------------------------- *)
VARIABLES
  entries,       \* feed_entry rows
  tags,          \* tag rows
  links,         \* feed_entry_tag rows: a bag of (feed_entry_id, tag_id) pairs
  changes,       \* changes rows
  now,           \* datetime.utcnow()
  customLoaded,  \* whether "from custom_functions import *" succeeded
  lastResponse,  \* outcome of the last command or request
  req,           \* tag_entry requests in flight (one per worker thread)
  lastMutation   \* history: when the latest tag mutation succeeded

vars ==
  <<entries, tags, links, changes, now, customLoaded, lastResponse, req,
    lastMutation>>
store == <<entries, tags, links, changes>>

Max(S) == CHOOSE x \in S : \A y \in S : y <= x
\* SQLite rowid of a new row
NextId(table) == IF table = {} THEN 1 ELSE Max({r.id : r \in table}) + 1

(* ----------------------------- ingestion ------------------------------ *)
\* FeedEntry.query.filter_by(feed_id=...).first(): the session autoflushes, so
\* the rows added earlier in the run are seen
ExistingEntryNever(rows, fid) == FALSE
ExistingEntry(rows, fid) == \E e \in rows : e.feed_id = fid

\* the unique constraint on feed_entry.feed_id, checked when a row is flushed
FeedIdUnique(rows, fid) == \A e \in rows : e.feed_id # fid

\* the loop over the source items: rows is the committed table plus the rows
\* this run has added; "raised" when an item made the run raise
RECURSIVE IngestLoop(_, _, _, _)
IngestLoop(variant, items, rows, t) ==
  IF items = <<>> THEN [status |-> "ok", rows |-> rows]
  ELSE LET it == Head(items) IN
    IF ExistingEntry(rows, it.id) THEN IngestLoop(variant, Tail(items), rows, t)
    ELSE IF variant # "custom" /\ ~it.dateok
      THEN [status |-> "raised", rows |-> rows]
    ELSE IF ~FeedIdUnique(rows, it.id)
      THEN [status |-> "raised", rows |-> rows]
    ELSE IngestLoop(variant, Tail(items),
           rows \cup {[id |-> NextId(rows),
                       feed_id |-> it.id,
                       title |-> IF variant = "json"
                                   THEN fix_text(it.title, "auto")
                                   ELSE html_escape(fix_text(it.title, "off")),
                       published_at |-> IF variant = "custom" THEN t
                                        ELSE ItemTime(it.id)]},
           t)

\* the order in which a variant walks the source list
WalkOrder(variant, items) == IF variant = "custom" THEN items ELSE Reverse(items)

\* one run of a variant ("rss": app.py, "json": app.py, "custom":
\* custom_functions.py) on a fetched document, with the commit failing or not:
\* how the run ended, the table afterwards, and the rows the loop constructed
\* (a one-element set binds the loop's result so that it is computed once)
Only(S) == CHOOSE x \in S : TRUE
RunKeepsPartial(variant, resp, rows, t, commitFails) ==
  IF variant = "json" /\ resp.status # "ok"
    THEN [status |-> "skipped", rows |-> rows, built |-> {}]
  ELSE LET items == IF resp.status = "ok" THEN resp.items ELSE <<>>
       IN  Only({[status |-> IF r.status = "raised" \/ commitFails
                              THEN "raised" ELSE "ok",
                  rows |-> r.rows,
                  built |-> r.rows \ rows] :
                 r \in {IngestLoop(variant, WalkOrder(variant, items), rows, t)}})
Run(variant, resp, rows, t, commitFails) ==
  IF variant = "json" /\ resp.status # "ok"
    THEN [status |-> "skipped", rows |-> rows, built |-> {}]
  ELSE LET items == IF resp.status = "ok" THEN resp.items ELSE <<>>
       IN  Only({[status |-> IF r.status = "raised" \/ commitFails
                              THEN "raised" ELSE "ok",
                  rows |-> IF r.status = "raised" \/ commitFails
                             THEN rows ELSE r.rows,
                  built |-> r.rows \ rows] :
                 r \in {IngestLoop(variant, WalkOrder(variant, items), rows, t)}})

\* the modes the fetch_feed command is given
Modes == {"json", "RSS", "atom"}
ModeLower(m) == IF m = "RSS" THEN "rss" ELSE m

\* the function the command's mode reaches: the name fetch_rss_feed is rebound
\* by the star import when custom_functions loads
Variant(mode, custom) ==
  CASE ModeLower(mode) = "json" -> "json"
    [] ModeLower(mode) = "rss" -> IF custom THEN "custom" ELSE "rss"
    [] OTHER -> "none"

\* the source ids, in the order the source listed them, of the rows a run
\* constructed
RECURSIVE BatchOf(_, _)
BatchOf(items, ids) ==
  IF items = <<>> THEN <<>>
  ELSE IF Head(items).id \in ids
    THEN <<Head(items).id>> \o BatchOf(Tail(items), ids \ {Head(items).id})
  ELSE BatchOf(Tail(items), ids)

\* what a command or request answered: the view; for an ingestion run the
\* length of the source list and the batch the run constructed; for a tag_entry
\* request that redirects, the entry, the form's tag name and whether the
\* request added a link; for a request that reached update_or_create_change,
\* whether its commit went through ("ok") or was rolled back with the message
\* "An error occurred" ("failed"); for an Atom feed, the time in <updated>
Response(view) ==
  [view |-> view, items |-> 0, batch |-> <<>>, entry |-> 0, name |-> <<>>,
   added |-> FALSE, touch |-> "none", updated |-> -1]

\* flask fetch_feed <mode>
FetchFeed(mode, resp, commitFails) ==
  LET v == Variant(mode, customLoaded) IN
  \E r \in {Run(v, resp, entries, now, commitFails)} :
    /\ entries' = IF v = "none" THEN entries ELSE r.rows
    /\ lastResponse' =
         IF v = "none" THEN Response("fetch_unrecognized")
         ELSE [view |-> "fetch_" \o r.status,
               items |-> Len(resp.items),
               batch |-> BatchOf(resp.items, {e.feed_id : e \in r.built}),
               entry |-> 0, name |-> <<>>, added |-> FALSE,
               touch |-> "none", updated |-> -1]
    /\ UNCHANGED <<tags, links, changes, now, customLoaded, lastMutation, req>>

\* time passes
Tick ==
  /\ now < MaxClock
  /\ now' = now + 1
  /\ UNCHANGED <<entries, tags, links, changes, customLoaded, lastMutation, lastResponse, req>>

(* ------------------------------ tagging ------------------------------- *)
\* what the tag form posts
FormTags == {<<"G", "o">>, <<" ", "g", "o", " ">>, <<"g", "_">>}

\* request.form['tags'].strip().lower()
NormalizeNoStrip(raw) == lower(raw)
NormalizeTagName(raw) == lower(strip(raw))

NoTag == [id |-> 0, name |-> <<>>]
\* Tag.query.filter(Tag.name.ilike(pattern)).first(): the first matching row of
\* a scan of the table in rowid order, None (NoTag) when no row matches
FirstTag(table, pattern) ==
  LET M == {t \in table : ilike(t.name, pattern)}
  IN  IF M = {} THEN NoTag ELSE CHOOSE t \in M : \A u \in M : t.id <= u.id

\* the unique constraint on tag.name
TagNameUnique(table, name) == \A t \in table : t.name # name

Pair(e, t) == [feed_entry_id |-> e, tag_id |-> t]
\* tag in entry.tags
Linked(e, t) == BagIn(Pair(e, t), links)
HasEntry(e) == \E x \in entries : x.id = e
HasTag(t) == \E x \in tags : x.id = t
\* entry.tags.remove(tag): every row of the pair goes
WithoutPair(b, pr) == [x \in (DOMAIN b) \ {pr} |-> b[x]]

\* update_or_create_change(record_id): the changes table after the call; a
\* failing commit is rolled back and swallowed
update_or_create_changeInserts(table, record_id, t, commitFails) ==
  IF commitFails THEN table
  ELSE table \cup {[id |-> NextId(table), updated |-> t]}
update_or_create_changeNoRollback(table, record_id, t, commitFails) ==
  IF \E c \in table : c.id = record_id
    THEN {IF c.id = record_id THEN [c EXCEPT !.updated = t] ELSE c : c \in table}
  ELSE table \cup {[id |-> record_id, updated |-> t]}
update_or_create_change(table, record_id, t, commitFails) ==
  IF commitFails THEN table
  ELSE IF \E c \in table : c.id = record_id
    THEN {IF c.id = record_id THEN [c EXCEPT !.updated = t] ELSE c : c \in table}
  ELSE table \cup {[id |-> record_id, updated |-> t]}

\* get_change_by_id(record_id) is not None
HasChange(table, record_id) == \E c \in table : c.id = record_id
\* get_change_by_id(record_id)
ChangeById(table, record_id) == CHOOSE c \in table : c.id = record_id

\* where a commit of a request may fail
FailPoints == {"none", "tag", "link", "change"}

TagResponse(view, e, raw, added, touch) ==
  [view |-> view, items |-> 0, batch |-> <<>>, entry |-> e, name |-> raw,
   added |-> added, touch |-> touch, updated |-> -1]

\* the outcome of the commit inside update_or_create_change
TouchOutcome(commitFails) == IF commitFails THEN "failed" ELSE "ok"

\* the history after a request: a commit that failed ends the failure-free
\* run, a link added or removed at time t is the latest mutation
NoMutation == [clean |-> TRUE, at |-> -1]
Failed == [clean |-> FALSE, at |-> -1]
Recorded(h, failed, mutated, t) ==
  IF ~h.clean \/ failed THEN Failed
  ELSE IF mutated THEN [h EXCEPT !.at = t]
  ELSE h

\* POST /tag_entry/<entry_id>, served from start to end with no other request
\* in between
TagEntry(e, raw, fp) ==
  \E tag_name \in {NormalizeTagName(raw)} :
  \E found \in {FirstTag(tags, tag_name)} :
  LET create == found = NoTag
      tid == IF create THEN NextId(tags) ELSE found.id
      tagRaises == create /\ (fp = "tag" \/ ~TagNameUnique(tags, tag_name))
  IN
  IF ~HasEntry(e)
    THEN /\ lastResponse' = Response("tag_entry:entry_not_found")
         /\ UNCHANGED <<entries, tags, links, changes, now, customLoaded, lastMutation, req>>
  ELSE IF tagRaises
    THEN /\ lastResponse' = Response("tag_entry:exception")
         /\ lastMutation' = Recorded(lastMutation, TRUE, FALSE, now)
         /\ UNCHANGED <<entries, tags, links, changes, now, customLoaded, req>>
  ELSE
    \E append \in {~Linked(e, tid)} :
    LET linkRaises == append /\ fp = "link" IN
    /\ append => BagCardinality(links) < MaxLinks
    /\ lastResponse' = IF linkRaises THEN Response("tag_entry:exception")
                       ELSE TagResponse("tag_entry:redirect", e, raw, append,
                                        TouchOutcome(fp = "change"))
    /\ tags' = IF create THEN tags \cup {[id |-> tid, name |-> tag_name]} ELSE tags
    /\ links' = IF append /\ ~linkRaises
                  THEN links (+) SetToBag({Pair(e, tid)}) ELSE links
    /\ changes' = IF linkRaises THEN changes
                  ELSE update_or_create_change(changes, 1, now, fp = "change")
    /\ lastMutation' =
         Recorded(lastMutation, linkRaises \/ fp = "change", append, now)
    /\ UNCHANGED <<entries, now, customLoaded, req>>

\* how the delete of a pair stored in more than one row ends: the session
\* expected one row ("stale": StaleDataError, rolled back) or takes them all
DeleteOutcomes == {"stale", "all"}

\* POST /delete_tag/<entry_id>/<tag_id>
DeleteTagAlwaysTouches(e, t, fp, dup) ==
  LET found == HasEntry(e) /\ HasTag(t)
      linked == found /\ Linked(e, t)
      raises == linked /\ (fp = "link"
                  \/ (CopiesIn(Pair(e, t), links) > 1 /\ dup = "stale"))
  IN
  /\ lastResponse' =
       IF ~found THEN Response("delete_tag:not_found")
       ELSE IF ~linked THEN Response("delete_tag:not_associated")
       ELSE IF raises THEN Response("delete_tag:exception")
       ELSE TagResponse("delete_tag:redirect", e, <<>>, FALSE,
                        TouchOutcome(fp = "change"))
  /\ links' = IF linked /\ ~raises THEN WithoutPair(links, Pair(e, t)) ELSE links
  /\ changes' = IF found /\ ~raises
                  THEN update_or_create_change(changes, 1, now, fp = "change")
                  ELSE changes
  /\ lastMutation' =
       Recorded(lastMutation, linked /\ (raises \/ fp = "change"), linked, now)
  /\ UNCHANGED <<entries, tags, now, customLoaded, req>>
DeleteTag(e, t, fp, dup) ==
  LET found == HasEntry(e) /\ HasTag(t)
      linked == found /\ Linked(e, t)
      raises == linked /\ (fp = "link"
                  \/ (CopiesIn(Pair(e, t), links) > 1 /\ dup = "stale"))
  IN
  /\ lastResponse' =
       IF ~found THEN Response("delete_tag:not_found")
       ELSE IF ~linked THEN Response("delete_tag:not_associated")
       ELSE IF raises THEN Response("delete_tag:exception")
       ELSE TagResponse("delete_tag:redirect", e, <<>>, FALSE,
                        TouchOutcome(fp = "change"))
  /\ links' = IF linked /\ ~raises THEN WithoutPair(links, Pair(e, t)) ELSE links
  /\ changes' = IF linked /\ ~raises
                  THEN update_or_create_change(changes, 1, now, fp = "change")
                  ELSE changes
  /\ lastMutation' =
       Recorded(lastMutation, linked /\ (raises \/ fp = "change"), linked, now)
  /\ UNCHANGED <<entries, tags, now, customLoaded, req>>

(* ------------------------------ queries ------------------------------- *)
\* the tag names and limits feed requests carry; <<>> is no tag, 0 no limit
QueryTags == {<<"G", "o">>, <<"g", "_">>, <<"%">>, <<"z">>}
Limits == 0..MaxLimit

RECURSIVE Repeat(_, _)
Repeat(x, n) == IF n = 0 THEN <<>> ELSE <<x>> \o Repeat(x, n - 1)

\* ORDER BY feed_entry.id DESC over the rows of a select: ids is the set of
\* entry ids and mult[id] the number of rows that carry the id
RECURSIVE OrderDesc(_, _)
OrderDesc(ids, mult) ==
  IF ids = {} THEN <<>>
  ELSE LET m == Max(ids) IN Repeat(m, mult[m]) \o OrderDesc(ids \ {m}, mult)

\* LIMIT n
Take(s, n) == SubSeq(s, 1, IF n < Len(s) THEN n ELSE Len(s))

\* Query.all() on one mapped class: one object per identity, first row's place
RECURSIVE Uniqued(_)
Uniqued(s) ==
  IF s = <<>> THEN <<>>
  ELSE <<Head(s)>> \o Uniqued(SelectSeq(Tail(s), LAMBDA x : x # Head(s)))

EntryById(i) == CHOOSE e \in entries : e.id = i

\* get_entries_by_tag_or_not(tag_name, limit): the entries, as a sequence
get_entries_by_tag_or_not(tag_name, limit) ==
  LET ids0 == {e.id : e \in entries}
      rows == IF tag_name # <<>>
                THEN LET tag == FirstTag(tags, tag_name)
                     IN  IF tag = NoTag THEN <<>>
                         ELSE OrderDesc(ids0,
                                [i \in ids0 |-> CopiesIn(Pair(i, tag.id), links)])
                ELSE OrderDesc(ids0, [i \in ids0 |-> 1])
      ids == Uniqued(IF limit # 0 THEN Take(rows, limit) ELSE rows)
  IN  [k \in 1..Len(ids) |-> EntryById(ids[k])]

(* ------------------------------ renderers ----------------------------- *)
\* [tag.name for tag in entry.tags]
TagNames(e) == {t.name : t \in {x \in tags : Linked(e.id, x.id)}}

\* one <item>, <entry> or JSON object: "entry" is the identity of the entry it
\* renders
FeedItem(e) == [entry |-> e.id, title |-> e.title, tags |-> TagNames(e)]

\* for entry in entries: feed += ...
RECURSIVE RenderReversed(_)
RenderReversed(es) ==
  IF es = <<>> THEN <<>> ELSE RenderReversed(Tail(es)) \o <<FeedItem(Head(es))>>
RECURSIVE RenderItems(_)
RenderItems(es) ==
  IF es = <<>> THEN <<>> ELSE <<FeedItem(Head(es))>> \o RenderItems(Tail(es))

\* the bodies of the three feed endpoints
get_feed_rss(tag_name, limit) ==
  RenderItems(get_entries_by_tag_or_not(tag_name, limit))
get_feed_atom(tag_name, limit) ==
  RenderItems(get_entries_by_tag_or_not(tag_name, limit))
get_feed_json(tag_name, limit) ==
  RenderItems(get_entries_by_tag_or_not(tag_name, limit))

\* GET /get_feed_rss[/tag/<tag_name>][/<limit>]
GetFeedRss(tag_name, limit) ==
  /\ lastResponse' = Response("feed_rss")
  /\ UNCHANGED <<entries, tags, links, changes, now, customLoaded, lastMutation, req>>

\* GET /get_feed_atom[/tag/<tag_name>][/<limit>]: a missing Changes row is
\* created on the way
GetFeedAtom(tag_name, limit, commitFails) ==
  LET lazy == ~HasChange(changes, 1) IN
  /\ changes' = IF lazy
                  THEN update_or_create_change(changes, 1, now, commitFails)
                  ELSE changes
  /\ lastResponse' =
       [Response("feed_atom") EXCEPT
          !.touch = IF lazy THEN TouchOutcome(commitFails) ELSE "none",
          !.updated = IF lazy THEN now ELSE ChangeById(changes, 1).updated]
  /\ lastMutation' = Recorded(lastMutation, lazy /\ commitFails, FALSE, now)
  /\ UNCHANGED <<entries, tags, links, now, customLoaded, req>>

\* GET /get_feed_json[/tag/<tag_name>][/<limit>]
GetFeedJson(tag_name, limit) ==
  /\ lastResponse' = Response("feed_json")
  /\ UNCHANGED <<entries, tags, links, changes, now, customLoaded, lastMutation, req>>

Procs == {1, 2}
Idle == [pc |-> "idle", entry |-> 0, name |-> <<>>, tag |-> 0]

\* the empty store db.create_all() leaves
Empty ==
  /\ entries = {}
  /\ tags = {}
  /\ links = EmptyBag
  /\ changes = {}
  /\ now = 0
  /\ lastResponse = Response("none")
  /\ req = [p \in Procs |-> Idle]
  /\ lastMutation = NoMutation

\* the repository ships custom_functions.py: the star import succeeds
Init == Empty /\ customLoaded = TRUE

\* a deployment with or without custom_functions.py (the import is optional)
InitIngest == Empty /\ customLoaded \in BOOLEAN

\* the answers and commit outcomes worth drawing for a mode: a mode the command
\* rejects never fetches
Fetches(m) ==
  IF Variant(m, customLoaded) = "none"
    THEN {<<[status |-> "nourl", items |-> <<>>], FALSE>>}
    ELSE FeedResponses \X BOOLEAN

\* the fetch_feed command alone, run serially on every source document
NextIngest == \E m \in Modes : \E x \in Fetches(m) : FetchFeed(m, x[1], x[2])

SpecIngest == InitIngest /\ [][NextIngest]_vars

\* the documents the JSON source serves while entries are tagged and published:
\* a feed that grows at its head
GrowingFeed ==
  {[status |-> "ok", items |-> <<Item("b", TRUE), Item("a", TRUE)>>],
   [status |-> "ok",
    items |-> <<Item("c", TRUE), Item("b", TRUE), Item("a", TRUE)>>]}

\* the ids requests name: those of the stored rows and one that is not stored
EntryIdInputs == {e.id : e \in entries} \cup {NextId(entries)}
TagIdInputs == {t.id : t \in tags} \cup {NextId(tags)}

\* every command and request, each served from start to end
Next ==
  \/ \E resp \in GrowingFeed : FetchFeed("json", resp, FALSE)
  \/ \E e \in EntryIdInputs, raw \in FormTags, fp \in FailPoints :
       TagEntry(e, raw, fp)
  \/ \E e \in EntryIdInputs, t \in TagIdInputs, fp \in {"none", "link", "change"} :
       DeleteTag(e, t, fp, "stale")
  \/ \E q \in QueryTags \cup {<<>>}, n \in Limits : GetFeedRss(q, n)
  \/ \E q \in QueryTags \cup {<<>>}, n \in Limits :
       \E f \in (IF HasChange(changes, 1) THEN {FALSE} ELSE BOOLEAN) :
         GetFeedAtom(q, n, f)
  \/ \E q \in QueryTags \cup {<<>>}, n \in Limits : GetFeedJson(q, n)
  \/ Tick

Spec == Init /\ [][Next]_vars

(* ---------------------- concurrent tag requests ---------------------- *)
\* tag_entry served by two worker threads, each with its own session: the
\* steps are the statements that read or commit

\* lines 261-265: the entry and the tag are looked up
Start(p, e, raw) ==
  LET tag_name == NormalizeTagName(raw)
      found == FirstTag(tags, tag_name)
  IN
  /\ req[p].pc = "idle"
  /\ IF ~HasEntry(e)
       THEN /\ lastResponse' = Response("tag_entry:entry_not_found")
            /\ req' = req
       ELSE /\ lastResponse' = lastResponse
            /\ req' = [req EXCEPT ![p] =
                 [pc |-> IF found = NoTag THEN "create" ELSE "check",
                  entry |-> e, name |-> raw, tag |-> found.id, added |-> FALSE]]
  /\ UNCHANGED <<entries, tags, links, changes, now, customLoaded, lastMutation>>

\* lines 267-270: the new tag is committed
Create(p) ==
  LET tag_name == NormalizeTagName(req[p].name) IN
  /\ req[p].pc = "create"
  /\ IF TagNameUnique(tags, tag_name)
       THEN /\ tags' = tags \cup {[id |-> NextId(tags), name |-> tag_name]}
            /\ req' = [req EXCEPT ![p].pc = "check", ![p].tag = NextId(tags)]
            /\ lastResponse' = lastResponse
       ELSE /\ tags' = tags
            /\ req' = [req EXCEPT ![p] = Idle]
            /\ lastResponse' = Response("tag_entry:exception")
  /\ UNCHANGED <<entries, links, changes, now, customLoaded, lastMutation>>

\* line 272: entry.tags is loaded and searched
Check(p) ==
  /\ req[p].pc = "check"
  /\ req' = [req EXCEPT ![p].pc =
       IF Linked(req[p].entry, req[p].tag) THEN "touch" ELSE "append"]
  /\ UNCHANGED <<entries, tags, links, changes, now, customLoaded, lastMutation, lastResponse>>

\* lines 273-274: the link is committed
AppendLink(p) ==
  /\ req[p].pc = "append"
  /\ BagCardinality(links) < MaxRaceLinks
  /\ links' = links (+) SetToBag({Pair(req[p].entry, req[p].tag)})
  /\ req' = [req EXCEPT ![p].pc = "touch", ![p].added = TRUE]
  /\ lastMutation' = Recorded(lastMutation, FALSE, TRUE, now)
  /\ UNCHANGED <<entries, tags, changes, now, customLoaded, lastResponse>>

\* lines 276-277: the Changes row is touched and the redirect sent
Touch(p) ==
  /\ req[p].pc = "touch"
  /\ changes' = update_or_create_change(changes, 1, now, FALSE)
  /\ lastResponse' =
       TagResponse("tag_entry:redirect", req[p].entry, req[p].name,
                   req[p].added, TouchOutcome(FALSE))
  /\ req' = [req EXCEPT ![p] = Idle]
  /\ UNCHANGED <<entries, tags, links, now, customLoaded, lastMutation>>

\* the document served and the name posted while two requests race
RacedFeed == {[status |-> "ok", items |-> <<Item("b", TRUE), Item("a", TRUE)>>]}
RacedTags == {<<"G", "o">>}

NextConc ==
  \/ \E resp \in RacedFeed : FetchFeed("json", resp, FALSE)
  \/ \E p \in Procs, e \in EntryIdInputs, raw \in RacedTags : Start(p, e, raw)
  \/ \E p \in Procs : Create(p)
  \/ \E p \in Procs : Check(p)
  \/ \E p \in Procs : AppendLink(p)
  \/ \E p \in Procs : Touch(p)
  \/ \E e \in EntryIdInputs, t \in TagIdInputs, d \in DeleteOutcomes :
       DeleteTag(e, t, "none", d)
  \/ \E q \in QueryTags \cup {<<>>}, n \in Limits : GetFeedJson(q, n)

SpecConc == Init /\ [][NextConc]_vars

(* ----------------------- claims about ingestion ----------------------- *)
EntryOf(fid) == CHOOSE e \in entries : e.feed_id = fid
Variants == {"rss", "json", "custom"}
AllStored(l) == \A i \in 1..Len(l) : \E e \in entries : e.feed_id = l[i].id

\* C1: no two stored entries share a feed_id; a run of any variant on a source
\* whose items are all stored ends normally and inserts nothing; and running
\* a variant again, then or later, on the source it has just ingested leaves
\* the entries, with their field values, as the first run left them.
C1_IdempotentIngestion ==
  /\ \A e1, e2 \in entries : e1.feed_id = e2.feed_id => e1 = e2
  /\ \A v \in Variants, l \in SourceLists :
       LET doc == [status |-> "ok", items |-> l]
           once == Run(v, doc, entries, now, FALSE)
       IN  /\ AllStored(l) =>
                once = [status |-> "ok", rows |-> entries, built |-> {}]
           /\ once.status = "ok" =>
                \A t \in now..MaxClock :
                  Run(v, doc, once.rows, t, FALSE) =
                    [status |-> "ok", rows |-> once.rows, built |-> {}]

\* C1 witness: a run on a non-empty source ended normally and inserted nothing
C1_Witness ==
  /\ lastResponse.view = "fetch_ok"
  /\ lastResponse.items > 1
  /\ lastResponse.batch = <<>>
  /\ Cardinality(entries) > 1

\* C2 (as claimed): after a run of fetch_feed in mode rss or json, the entries
\* the run inserted have local ids that descend along the source's newest-first
\* list: the item listed first (the newest) has the highest id.
C2_ChronologicalIds ==
  lastResponse.view = "fetch_ok" =>
    \A i, j \in 1..Len(lastResponse.batch) :
      i < j => EntryOf(lastResponse.batch[i]).id > EntryOf(lastResponse.batch[j]).id

\* C8: a run that raises (a timestamp that does not parse, a failing commit)
\* leaves the entries exactly as they were before the run.
C8_AllOrNothing ==
  [][lastResponse'.view = "fetch_raised" => entries' = entries]_vars

\* C8 witness: a run raised after it had constructed two entries, and neither
\* is stored
C8_Witness ==
  /\ lastResponse.view = "fetch_raised"
  /\ Len(lastResponse.batch) > 1
  /\ \A i \in 1..Len(lastResponse.batch) :
       \A e \in entries : e.feed_id # lastResponse.batch[i]

(* ------------------ claims about queries and renderers ---------------- *)
Ids(es) == [k \in 1..Len(es) |-> es[k].id]
ItemIdsOf(body) == [k \in 1..Len(body) |-> body[k].entry]
StrictlyDescending(s) == \A i, j \in 1..Len(s) : i < j => s[i] > s[j]
StrictlyAscending(s) == \A i, j \in 1..Len(s) : i < j => s[i] < s[j]
FeedViews == {"feed_rss", "feed_atom", "feed_json"}
BodyOf(view, q, n) ==
  CASE view = "feed_rss" -> get_feed_rss(q, n)
    [] view = "feed_atom" -> get_feed_atom(q, n)
    [] OTHER -> get_feed_json(q, n)
AnyTag == QueryTags \cup {<<>>}

\* C3 (as claimed): the endpoint that has just answered emits the entries in
\* the reverse of the Query Layer's order; with no tag and no limit its items
\* are in ascending local identity.
C3_ReversedOutput ==
  lastResponse.view \in FeedViews =>
    /\ \A q \in AnyTag, n \in Limits :
         ItemIdsOf(BodyOf(lastResponse.view, q, n)) =
           Reverse(Ids(get_entries_by_tag_or_not(q, n)))
    /\ StrictlyAscending(ItemIdsOf(BodyOf(lastResponse.view, <<>>, 0)))

\* C3 (amended): each of the three endpoints emits one item per entry of the
\* Query Layer's result, in the order of that result, for every tag and limit;
\* with no tag and no limit the items are all the entries in descending local
\* identity (newest first).
C3_QueryOrderOutput ==
  \A v \in FeedViews :
    /\ \A q \in AnyTag, n \in Limits :
         ItemIdsOf(BodyOf(v, q, n)) = Ids(get_entries_by_tag_or_not(q, n))
    /\ StrictlyDescending(ItemIdsOf(BodyOf(v, <<>>, 0)))
    /\ {BodyOf(v, <<>>, 0)[k].entry : k \in 1..Len(BodyOf(v, <<>>, 0))} =
         {e.id : e \in entries}

\* C3 witness: a feed endpoint has answered over a store of three entries
C3_Witness == lastResponse.view \in FeedViews /\ Cardinality(entries) = 3

\* C4 (as claimed): for every tag filter and positive limit the limited result
\* is the first min(limit, n) elements of the unlimited result, which is in
\* strictly descending local identity.
C4_LimitIsPrefix ==
  \A q \in AnyTag, n \in 1..MaxLimit :
    LET all == get_entries_by_tag_or_not(q, 0) IN
    /\ StrictlyDescending(Ids(all))
    /\ get_entries_by_tag_or_not(q, n) = Take(all, n)

\* the entries linked to a tag whose name equals q ignoring case
LinkedToNamed(q) ==
  {e \in entries :
     \E t \in tags : lower(t.name) = lower(q) /\ Linked(e.id, t.id)}

\* C5 (as claimed): for a non-empty tag name the result is exactly the entries
\* linked to the tag whose name equals it ignoring case, and is empty when
\* there is no such tag or the tag has no entry.
C5_ExactTagMatch ==
  \A q \in QueryTags :
    LET r == get_entries_by_tag_or_not(q, 0)
    IN  {r[k] : k \in 1..Len(r)} = LinkedToNamed(q)

(* ------------------------ claims about tagging ------------------------ *)
TagEntryViews ==
  {"tag_entry:redirect", "tag_entry:exception", "tag_entry:entry_not_found"}
DeleteTagViews ==
  {"delete_tag:redirect", "delete_tag:exception", "delete_tag:not_found",
   "delete_tag:not_associated"}

\* C6: when tag_entry has just attached a name to an entry and is called again
\* for that entry with a name that is the same after trimming and lower-casing,
\* the second call redirects, creates no tag and no link, and the entry has
\* exactly one link to the tag of that name's lookup.
C6_CaseInsensitiveTagIdentity ==
  [][(lastResponse.view = "tag_entry:redirect"
        /\ lastResponse'.view \in TagEntryViews) =>
       \A raw \in FormTags, fp \in FailPoints :
         (/\ lower(strip(raw)) = lower(strip(lastResponse.name))
          /\ TagEntry(lastResponse.entry, raw, fp))
         => /\ tags' = tags
            /\ links' = links
            /\ lastResponse'.view = "tag_entry:redirect"
            /\ ~lastResponse'.added
            /\ \E t \in tags :
                 /\ ilike(t.name, lower(strip(raw)))
                 /\ CopiesIn(Pair(lastResponse.entry, t.id), links') = 1]_vars

\* C6 witness: a tag_entry call with the name " go " found the entry already
\* linked to the tag "go"
C6_Witness ==
  /\ lastResponse.view = "tag_entry:redirect"
  /\ ~lastResponse.added
  /\ lastResponse.name = <<" ", "g", "o", " ">>
  /\ \E t \in tags : t.name = <<"g", "o">> /\ Linked(lastResponse.entry, t.id)

\* C7 (as claimed): no (entry, tag) pair is stored in more than one link row.
C7_OneLinkPerPair == \A pr \in DOMAIN links : links[pr] <= 1

\* C9: delete_tag for a stored entry and a stored tag that are not linked
\* answers the "not associated" view and changes no table.
C9_DetachNotAssociated ==
  [][lastResponse'.view \in DeleteTagViews =>
       \A e \in EntryIdInputs, t \in TagIdInputs :
         (HasEntry(e) /\ HasTag(t) /\ ~Linked(e, t)) =>
           \A fp \in FailPoints, d \in DeleteOutcomes :
             DeleteTag(e, t, fp, d)
             => /\ lastResponse'.view = "delete_tag:not_associated"
                /\ entries' = entries
                /\ tags' = tags
                /\ links' = links
                /\ changes' = changes]_vars

\* C9 witness: the "not associated" view was answered over a store that has a
\* link and a Changes row
C9_Witness ==
  /\ lastResponse.view = "delete_tag:not_associated"
  /\ links # EmptyBag
  /\ changes # {}

\* C10 (as claimed): the Changes table is written only by a step that adds or
\* removes a link, or by the Atom feed creating the missing row.
C10_ChangeWrittenOnlyByMutation ==
  [][changes' # changes =>
       \/ links' # links
       \/ (lastResponse'.view = "feed_atom" /\ changes = {})]_vars

(* --------------------- claims about the Change record ----------------- *)
TheChange == CHOOSE c \in changes : TRUE
RedirectViews == {"tag_entry:redirect", "delete_tag:redirect"}

\* C11 (as claimed): while no commit has failed (the clock never goes back),
\* the stored Change timestamp never decreases, a request that adds or removes
\* a link leaves the timestamp at the time of that request, and the <updated>
\* of an Atom feed rendered after a tag mutation is the time of the latest
\* successful mutation.
C11_ChangeTimestampMonotonic ==
  /\ [][lastMutation'.clean =>
         /\ now' >= now
         /\ (changes # {} =>
               changes' # {} /\ TheChange'.updated >= TheChange.updated)
         /\ (links' # links => changes' = {[id |-> 1, updated |-> now]})]_vars
  /\ [](lastResponse.view = "feed_atom" /\ lastMutation.clean
          /\ lastMutation.at >= 0
        => lastResponse.updated = lastMutation.at)

\* C12: the Changes table never holds more than one row and the row's id is
\* 1; while no commit has failed the row exists once a link was added or
\* removed or an Atom feed was served, and it is created by such a request;
\* once the row exists every step leaves exactly that one row, with at most a
\* new timestamp.
C12_ChangeSingleton ==
  /\ [](Cardinality(changes) <= 1 /\ \A c \in changes : c.id = 1)
  /\ [](lastMutation.clean
          /\ (lastMutation.at >= 0 \/ lastResponse.view = "feed_atom")
        => changes # {})
  /\ [][/\ changes # {} =>
            Cardinality(changes') = 1 /\ TheChange'.id = TheChange.id
         /\ (lastMutation'.clean /\ changes = {} /\ changes' # {} =>
              links' # links \/ lastResponse'.view = "feed_atom")]_vars

\* the row exists, an attach created or touched it and a detach at a later
\* time has only moved its timestamp
C12_Witness ==
  /\ lastMutation = [clean |-> TRUE, at |-> 1]
  /\ lastResponse.view = "delete_tag:redirect"
  /\ changes = {[id |-> 1, updated |-> 1]}
  /\ tags # {}

\* C13: a tag_entry or delete_tag request whose commit inside
\* update_or_create_change fails still answers with the redirect, the link it
\* added or removed is stored, and the Changes table is what it was before the
\* request (a step that leaves the clock alone is a request).
C13_BestEffortTouch ==
  [][/\ lastResponse'.touch = "failed"
     /\ lastResponse'.view # "feed_atom"
     /\ now' = now
     =>
       /\ lastResponse'.view \in RedirectViews
       /\ changes' = changes
       /\ (lastResponse'.view = "tag_entry:redirect" =>
             IF lastResponse'.added
               THEN \E t \in tags' :
                      /\ ~Linked(lastResponse'.entry, t.id)
                      /\ links' = links (+)
                           SetToBag({Pair(lastResponse'.entry, t.id)})
               ELSE links' = links)
       /\ (lastResponse'.view = "delete_tag:redirect" =>
             \E t \in tags :
               /\ Linked(lastResponse'.entry, t.id)
               /\ links' = WithoutPair(links, Pair(lastResponse'.entry, t.id)))]_vars

\* an attach whose touch failed: the link is stored, the Changes row still
\* absent
C13_Witness ==
  /\ lastResponse.view = "tag_entry:redirect"
  /\ lastResponse.touch = "failed"
  /\ lastResponse.added
  /\ \E t \in tags : Linked(lastResponse.entry, t.id)
  /\ changes = {}

(* ------------------------- claims about titles ------------------------ *)
\* the entities html.escape writes
Entities == {EscapeChar(c) : c \in {"&", "<", ">", "\"", "'"}}
\* no raw "<" or ">", and every "&" begins an entity
MarkupEscaped(s) ==
  \A i \in 1..Len(s) :
    /\ s[i] \notin {"<", ">"}
    /\ s[i] = "&" => \E ent \in Entities : HasPrefix(SubSeq(s, i, Len(s)), ent)

\* C14 (as claimed): every stored entry, whichever variant ingested it, has a
\* title with no raw "<", ">" or unescaped "&".
C14_TitlesEscaped == \A e \in entries : MarkupEscaped(e.title)
====
